---- MODULE Spec2Model ----
(***************************************************************************)
(* Model of stock_signal_dashboard.py: a Streamlit script that, once per   *)
(* script run ("tick"), fetches a price frame through a TTL cache,         *)
(* computes RSI / MACD / Bollinger columns, renders them, evaluates the    *)
(* buy/sell rule on the latest row, pushes notifications, sleeps for the   *)
(* refresh interval and reruns itself.                                     *)
(***************************************************************************)
EXTENDS Integers, Sequences, FiniteSets, TLC

(***************************************************************************)
(* Cell values.  A cell is a number, a missing value (NaN), a string that  *)
(* parses as a number, or a string that does not.                          *)
(***************************************************************************)
Num(n) == [k |-> "num", v |-> n]
NaN == [k |-> "nan", v |-> 0]
NumStr(n) == [k |-> "str", v |-> n]
Junk == [k |-> "junk", v |-> 0]

\* Series.isna(): true of a missing value only.
isna(x) == x.k = "nan"

\* pd.to_numeric(..., errors='coerce'): numbers stay, numeric strings are
\* parsed, everything else becomes NaN.
to_numeric(x) ==
    CASE x.k = "num" -> x
      [] x.k = "str" -> Num(x.v)
      [] OTHER -> NaN

\* A comparison that reads an undefined operand as the number 0.
GtNaNAsZero(a, b) == a.v > b.v
\* Series > Series / Series > scalar: False wherever an operand is NaN.
Gt(a, b) == a.k = "num" /\ b.k = "num" /\ a.v > b.v

\* A "less than" that also accepts equality.
LtOrEqual(a, b) == a.k = "num" /\ b.k = "num" /\ a.v <= b.v
\* Series < Series / Series < scalar: False wherever an operand is NaN.
Lt(a, b) == a.k = "num" /\ b.k = "num" /\ a.v < b.v

(***************************************************************************)
(* Program constants.                                                      *)
(***************************************************************************)
CACHE_TTL == 300
TELEGRAM_TIMEOUT == 5
RSI_BUY_BELOW == 30
RSI_SELL_ABOVE == 70
MIN_REFRESH == 10
DEFAULT_REFRESH == 60
MAX_REFRESH == 300

\* The range of the refresh-interval slider, and the positions explored.
RefreshRange == MIN_REFRESH..MAX_REFRESH
RefreshChoices == {DEFAULT_REFRESH, MAX_REFRESH}

\* Environment variables of each channel, and the settings explored for them:
\* all set, or not all set (Telegram: one of the two; email: none).
TelegramVars == {"TELEGRAM_TOKEN", "TELEGRAM_CHAT_ID"}
EmailVars == {"EMAIL_SENDER", "EMAIL_PASSWORD", "EMAIL_RECEIVER"}
TelegramEnvs == {{"TELEGRAM_TOKEN"}, TelegramVars}
EmailEnvs == {{}, EmailVars}

\* all([...]) over the environment variables of a channel.
all_set(env, names) == names \subseteq env

(***************************************************************************)
(* Data frames: a set of column names and a sequence of rows, each row a   *)
(* function from the column names to cells.  The Datetime cell of a row is *)
(* its position in the fetched frame.                                      *)
(***************************************************************************)
MaxRows == 2

EmptyFrame == [cols |-> {}, rows |-> <<>>]

\* DataFrame.empty: no rows or no columns.
empty(df) == df.cols = {} \/ df.rows = <<>>

\* data.iloc[-1]
iloc_last(df) == df.rows[Len(df.rows)]

IndicatorCols == {"RSI", "MACD", "Signal", "BB_High", "BB_Low"}
SignalCols == {"Buy_Signal", "Sell_Signal"}
ComputedCols == IndicatorCols \cup SignalCols

(***************************************************************************)
(* get_stock_data: the body run on a cache miss.  raw is what yf.download  *)
(* does: raise, or return a frame that may be empty, may lack a Close      *)
(* column, and whose Close cells may be anything.                          *)
(***************************************************************************)
RawCells == {Num(2), NumStr(2), Junk, NaN}

RawFrames ==
    {[raises |-> TRUE, hasClose |-> FALSE, closes |-> <<>>]} \cup
    {[raises |-> FALSE, hasClose |-> h, closes |-> c] :
        h \in BOOLEAN, c \in UNION {[1..n -> RawCells] : n \in 0..MaxRows}}

get_stock_data(raw) ==
    IF raw.raises
    THEN [value |-> EmptyFrame, msgs |-> {"error: Error fetching data"}]
    ELSE IF raw.closes = <<>>
    THEN [value |-> EmptyFrame, msgs |-> {"error: No data found"}]
    ELSE IF ~raw.hasClose
    THEN \* df['Close'] raises KeyError, caught by the except clause
         [value |-> EmptyFrame, msgs |-> {"error: Error fetching data"}]
    ELSE LET close == [i \in 1..Len(raw.closes) |-> to_numeric(raw.closes[i])]
         IN IF \A i \in 1..Len(close) : isna(close[i])
            THEN [value |-> EmptyFrame, msgs |-> {"error: Invalid Close data"}]
            ELSE [value |->
                    [cols |-> {"Datetime", "Close"},
                     rows |-> [i \in 1..Len(close) |->
                                 [c \in {"Datetime", "Close"} |->
                                    IF c = "Close" THEN close[i] ELSE Num(i)]]],
                  msgs |-> {}]

(***************************************************************************)
(* compute_signals.  The ta library is outside the repository: what its    *)
(* calls produce is an input.  raiseAt is the source line of the try block *)
(* at which an exception is raised (0: none), ind[i] the indicator values  *)
(* the library yields for the i-th row that is left after dropna.          *)
(***************************************************************************)
TryLines == 86..95

\* The line of the try block that assigns each column.
AssignedAt ==
    [c \in ComputedCols |->
        CASE c = "RSI" -> 89
          [] c = "MACD" -> 90
          [] c = "Signal" -> 91
          [] c = "BB_High" -> 92
          [] c = "BB_Low" -> 93
          [] c = "Buy_Signal" -> 94
          [] c = "Sell_Signal" -> 95]

\* df.dropna(subset=["Close"])
dropna(df) == [df EXCEPT !.rows = SelectSeq(df.rows, LAMBDA r : ~isna(r["Close"]))]

\* Line 94, evaluated on one row.
BuyRule(close, x) ==
    Gt(x.macd, x.signal) /\ Lt(x.rsi, Num(RSI_BUY_BELOW)) /\ Lt(close, x.bb_low)

\* Line 95, evaluated on one row.
SellRule(close, x) ==
    Lt(x.macd, x.signal) /\ Gt(x.rsi, Num(RSI_SELL_ABOVE)) /\ Gt(close, x.bb_high)

\* The cell that the try block writes into column c of a row.
Assigned(c, close, x) ==
    CASE c = "RSI" -> x.rsi
      [] c = "MACD" -> x.macd
      [] c = "Signal" -> x.signal
      [] c = "BB_High" -> x.bb_high
      [] c = "BB_Low" -> x.bb_low
      [] c = "Buy_Signal" -> BuyRule(close, x)
      [] c = "Sell_Signal" -> SellRule(close, x)

\* Lines 85-98: the try block and the final return.  An exception is caught,
\* reported, and the frame is returned with the columns assigned so far.
try_block(df, raiseAt, ind) ==
    LET kept == dropna(df)
        done == {c \in ComputedCols : raiseAt = 0 \/ AssignedAt[c] < raiseAt}
        cols == kept.cols \cup done
    IN [value |->
          [cols |-> cols,
           rows |-> [i \in 1..Len(kept.rows) |->
                       [c \in cols |->
                          IF c \in done
                          THEN Assigned(c, kept.rows[i]["Close"], ind[i])
                          ELSE kept.rows[i][c]]]],
        msgs |-> IF raiseAt = 0 THEN {} ELSE {"error: Error computing indicators"}]

compute_signals(df, raiseAt, ind) ==
    IF "Close" \notin df.cols \/ \A i \in 1..Len(df.rows) : isna(df.rows[i]["Close"])
    THEN [value |-> df, msgs |-> {"error: Close column missing or invalid"}]
    ELSE IF empty(dropna(df))
    THEN [value |-> dropna(df), msgs |-> {"error: No valid data after dropping NaNs"}]
    ELSE try_block(df, raiseAt, ind)

\* What the ta indicators can yield for one row.  MACD and its signal line:
\* both undefined, signal line still warming up, or both defined.  Bollinger
\* bands (low, high): undefined together, else low <= high.
MacdPairs ==
    {<<NaN, NaN>>, <<Num(1), NaN>>, <<Num(1), Num(0)>>, <<Num(1), Num(1)>>,
     <<Num(1), Num(2)>>}
RsiCells == {NaN, Num(29), Num(30), Num(70), Num(71)}
BandPairs == {<<NaN, NaN>>, <<Num(3), Num(4)>>, <<Num(0), Num(1)>>, <<Num(2), Num(2)>>}

TaRows ==
    {[rsi |-> r, macd |-> m[1], signal |-> m[2], bb_low |-> b[1], bb_high |-> b[2]] :
        r \in RsiCells, m \in MacdPairs, b \in BandPairs}

\* Rows before the latest one: still in warm-up, or defined and oversold.
WarmUpRow == [rsi |-> NaN, macd |-> NaN, signal |-> NaN, bb_low |-> NaN, bb_high |-> NaN]
EarlierRows ==
    {WarmUpRow,
     [rsi |-> Num(29), macd |-> Num(1), signal |-> Num(0), bb_low |-> Num(3),
      bb_high |-> Num(4)]}

\* The indicator values of a frame of n rows.
TaOutputs(n) ==
    {[i \in 1..n |-> IF i = n THEN last ELSE early[i]] :
        early \in [1..(n - 1) -> EarlierRows], last \in TaRows}

(***************************************************************************)
(* Notification transports.  requests.post is called with timeout=5, so    *)
(* it returns or raises; smtplib.SMTP_SSL is called without a timeout, so  *)
(* besides returning or raising it can block on a silent peer.             *)
(***************************************************************************)
PostOutcomes == {"ok", "raises"}
SmtpOutcomes == {"ok", "raises", "blocks"}

\* A send whose transport exception is not caught.
send_telegram_message_uncaught(env, outcome) ==
    IF ~all_set(env, TelegramVars)
    THEN [events |-> <<"send_telegram_message">>, msgs |-> {}, ends |-> "returns"]
    ELSE [events |-> <<"send_telegram_message", "requests.post">>,
          msgs |-> {},
          ends |-> IF outcome = "raises" THEN "raises" ELSE "returns"]

\* A send that posts a second time when the first post fails.
send_telegram_message_retry(env, outcome) ==
    IF ~all_set(env, TelegramVars)
    THEN [events |-> <<"send_telegram_message">>, msgs |-> {}, ends |-> "returns"]
    ELSE [events |-> IF outcome = "raises"
                     THEN <<"send_telegram_message", "requests.post", "requests.post">>
                     ELSE <<"send_telegram_message", "requests.post">>,
          msgs |-> {},
          ends |-> "returns"]

\* send_telegram_message: the calls made, the elements rendered, and how the
\* call ends ("returns", "raises", or "blocks" for ever).
send_telegram_message(env, outcome) ==
    IF ~all_set(env, TelegramVars)
    THEN [events |-> <<"send_telegram_message">>, msgs |-> {}, ends |-> "returns"]
    ELSE [events |-> <<"send_telegram_message", "requests.post">>,
          msgs |-> IF outcome = "raises"
                   THEN {"warning: Failed to send Telegram message"} ELSE {},
          ends |-> "returns"]

\* An email sender without the credential test of lines 63-64.
send_email_notification_unchecked(env, outcome) ==
    [events |-> <<"send_email_notification", "smtplib.SMTP_SSL">>,
     msgs |-> CASE outcome = "raises" -> {"warning: Failed to send email"}
                [] outcome = "ok" -> {"success: Email notification sent!"}
                [] OTHER -> {},
     ends |-> IF outcome = "blocks" THEN "blocks" ELSE "returns"]

\* send_email_notification: the calls made, the elements rendered, and how the
\* call ends.
send_email_notification(env, outcome) ==
    IF ~all_set(env, EmailVars)
    THEN [events |-> <<"send_email_notification">>, msgs |-> {}, ends |-> "returns"]
    ELSE [events |-> <<"send_email_notification", "smtplib.SMTP_SSL">>,
          msgs |-> CASE outcome = "raises" -> {"warning: Failed to send email"}
                     [] outcome = "ok" -> {"success: Email notification sent!"}
                     [] OTHER -> {},
          ends |-> IF outcome = "blocks" THEN "blocks" ELSE "returns"]

\* Lines 24-27: the credential checks at the top of every script run.
startup_messages(env) ==
    (IF ~all_set(env, TelegramVars)
     THEN {"error: Telegram credentials are missing"} ELSE {}) \cup
    (IF ~all_set(env, EmailVars)
     THEN {"warning: Email credentials are incomplete"} ELSE {})

\* Lines 144-153: the elements rendered before evaluation, in order, with the
\* columns each one reads.
RenderSteps ==
    << [el |-> "subheader", needs |-> {}],
       [el |-> "metric: Current Price", needs |-> {"Close"}],
       [el |-> "metric: RSI", needs |-> {"RSI"}],
       [el |-> "metric: MACD", needs |-> {"MACD"}],
       [el |-> "chart", needs |-> {"Datetime", "Close", "BB_High", "BB_Low"}] >>

\* The number of render steps that run before the first KeyError.
Rendered(df) ==
    IF \A i \in 1..Len(RenderSteps) : RenderSteps[i].needs \subseteq df.cols
    THEN Len(RenderSteps)
    ELSE (CHOOSE i \in 1..Len(RenderSteps) :
            /\ ~(RenderSteps[i].needs \subseteq df.cols)
            /\ \A j \in 1..(i - 1) : RenderSteps[j].needs \subseteq df.cols) - 1

(***************************************************************************)
(* State.                                                                  *)
(***************************************************************************)
VARIABLES
    env,               \* the environment variables that are set
    enable_email,      \* the "Enable Email Notifications" checkbox
    refresh_interval,  \* the refresh-interval slider, seconds
    cache,             \* the st.cache_data entry of get_stock_data(symbol)
    pc,                \* where the script run is
    data,              \* the frame of this script run
    signal,            \* the branch of lines 154-165 taken in this run
    ui,                \* the elements rendered in this run
    log,               \* the calls made in this run, in order
    stop_request,      \* "none", or where the run was when a stop was requested
    since_download     \* seconds since the last yf.download call, capped at
                       \* CACHE_TTL; the cap also stands for "no call yet"

vars == <<env, enable_email, refresh_interval, cache, pc, data, signal, ui, log,
          stop_request, since_download>>

NoEntry == [present |-> FALSE, age |-> 0, value |-> EmptyFrame, msgs |-> {}]

Count(e) == Cardinality({i \in 1..Len(log) : log[i] = e})

Init ==
    /\ env \in {t \cup m : t \in TelegramEnvs, m \in EmailEnvs}
    /\ enable_email \in BOOLEAN
    /\ refresh_interval \in RefreshChoices
    /\ cache = NoEntry
    /\ pc = "fetch"
    /\ data = EmptyFrame
    /\ signal = "none"
    /\ ui = startup_messages(env)
    /\ log = <<>>
    /\ stop_request = "none"
    /\ since_download = CACHE_TTL

\* A fetch guard that lets an empty frame through.
AfterFetchUnguarded(df) == "compute"

\* Line 141: the frame guard after the fetch.
AfterFetch(df) == IF ~empty(df) THEN "compute" ELSE "sleep"

\* Line 140 on a cache hit: the stored frame is returned and the stored
\* elements are replayed; the body of get_stock_data does not run.  Line 139
\* (placeholder.container()) comes first; like every call that renders, it is
\* a point at which the runtime ends the run if a stop is pending, so the
\* steps that begin with such a call wait for StopAtElement then.
FetchHit ==
    /\ pc = "fetch"
    /\ stop_request = "none"
    /\ cache.present
    /\ data' = cache.value
    /\ ui' = ui \cup cache.msgs
    /\ log' = Append(log, "get_stock_data")
    /\ pc' = AfterFetch(cache.value)
    /\ UNCHANGED <<env, enable_email, refresh_interval, stop_request, since_download, cache, signal>>

\* A cache that stores frames with rows only, so that a failed fetch is
\* retried on the next call.
cache_store_data_only(r) ==
    IF empty(r.value) THEN NoEntry
    ELSE [present |-> TRUE, age |-> 0, value |-> r.value, msgs |-> r.msgs]

\* Lines 29-30: what the decorator stores for a call that ran the body: the
\* returned frame, whatever it is, and the elements the body rendered.
cache_store(r) == [present |-> TRUE, age |-> 0, value |-> r.value, msgs |-> r.msgs]

\* Line 140 on a cache miss: the body runs and its result is stored.
FetchMiss ==
    /\ pc = "fetch"
    /\ stop_request = "none"
    /\ ~cache.present
    /\ \E raw \in RawFrames :
         LET r == get_stock_data(raw)
         IN /\ data' = r.value
            /\ ui' = ui \cup r.msgs
            /\ cache' = cache_store(r)
            /\ pc' = AfterFetch(r.value)
    /\ log' = log \o <<"get_stock_data", "yf.download">>
    /\ since_download' = 0
    /\ UNCHANGED <<env, enable_email, refresh_interval, stop_request, signal>>

\* Line 143: the frame guard after compute_signals.
AfterCompute(df) == IF ~empty(df) /\ "Close" \in df.cols THEN "render" ELSE "sleep"

\* The number of rows the indicator library is given.
valid_rows(df) == IF "Close" \in df.cols THEN Len(dropna(df).rows) ELSE 0

\* Line 142.  compute_signals renders nothing unless it reports an error, so
\* a pending stop ends the run inside it only at that st.error.
Compute ==
    /\ pc = "compute"
    /\ \E raiseAt \in {0} \cup TryLines :
       \E ind \in TaOutputs(valid_rows(data)) :
         LET r == compute_signals(data, raiseAt, ind)
             stopped == stop_request # "none" /\ r.msgs # {}
         IN /\ data' = IF stopped THEN EmptyFrame ELSE r.value
            /\ ui' = IF stopped THEN ui ELSE ui \cup r.msgs
            /\ pc' = IF stopped THEN "stopped" ELSE AfterCompute(r.value)
    /\ log' = Append(log, "compute_signals")
    /\ UNCHANGED <<env, enable_email, refresh_interval, stop_request, since_download, cache, signal>>

\* Lines 144-153: subheader, the three metrics and the chart.  A column that
\* is not in the frame raises KeyError, which ends the script run.
Render ==
    /\ pc = "render"
    /\ stop_request = "none"
    /\ LET n == Rendered(data)
       IN /\ ui' = ui \cup {RenderSteps[i].el : i \in 1..n} \cup
                    (IF n < Len(RenderSteps) THEN {"exception: KeyError"} ELSE {})
          /\ pc' = IF n < Len(RenderSteps) THEN "crashed" ELSE "evaluate"
    /\ log' = Append(log, "render")
    /\ UNCHANGED <<env, enable_email, refresh_interval, stop_request, since_download, cache, data, signal>>

\* A branch order that tests Sell_Signal before Buy_Signal.
branch_sell_first(df) ==
    IF "Sell_Signal" \notin df.cols THEN "KeyError"
    ELSE IF iloc_last(df)["Sell_Signal"] THEN "SELL"
    ELSE IF "Buy_Signal" \notin df.cols THEN "KeyError"
    ELSE IF iloc_last(df)["Buy_Signal"] THEN "BUY"
    ELSE "NEUTRAL"

\* Lines 154, 159, 164: which branch the latest row selects.
branch(df) ==
    IF "Buy_Signal" \notin df.cols THEN "KeyError"
    ELSE IF iloc_last(df)["Buy_Signal"] THEN "BUY"
    ELSE IF "Sell_Signal" \notin df.cols THEN "KeyError"
    ELSE IF iloc_last(df)["Sell_Signal"] THEN "SELL"
    ELSE "NEUTRAL"

\* Lines 154-155, 159-160, 164-165: the banner of the branch taken.
Evaluate ==
    /\ pc = "evaluate"
    /\ stop_request = "none"
    /\ LET b == branch(data)
       IN /\ signal' = IF b = "KeyError" THEN signal ELSE b
          /\ ui' = ui \cup
                 {CASE b = "BUY" -> "success: Buy Signal Detected!"
                    [] b = "SELL" -> "error: Sell Signal Detected!"
                    [] b = "NEUTRAL" -> "info: No strong signal currently."
                    [] OTHER -> "exception: KeyError"}
          /\ pc' = CASE b = "KeyError" -> "crashed"
                     [] b = "NEUTRAL" -> "table"
                     [] OTHER -> "telegram"
    /\ log' = Append(log, "evaluate")
    /\ UNCHANGED <<env, enable_email, refresh_interval, stop_request, since_download, cache, data>>

\* Where the script run is after a send: at the next statement if the call
\* returned, ended by the exception if it raised, stuck if it never returns.
AfterSend(ends, next) ==
    CASE ends = "returns" -> next
      [] ends = "raises" -> "crashed"
      [] OTHER -> "blocked"

\* Lines 156-157 and 161-162: the chat-bot call, then the checkbox test.
Telegram ==
    /\ pc = "telegram"
    /\ \E outcome \in PostOutcomes :
         LET r == send_telegram_message(env, outcome)
         IN /\ log' = log \o r.events
            /\ ui' = ui \cup r.msgs
            /\ pc' = AfterSend(r.ends, IF enable_email THEN "email" ELSE "table")
    /\ UNCHANGED <<env, enable_email, refresh_interval, stop_request, since_download, cache, data, signal>>

\* Lines 158 and 163: the email call.
Email ==
    /\ pc = "email"
    /\ \E outcome \in SmtpOutcomes :
         LET r == send_email_notification(env, outcome)
         IN /\ log' = log \o r.events
            /\ ui' = ui \cup r.msgs
            /\ pc' = AfterSend(r.ends, "table")
    /\ UNCHANGED <<env, enable_email, refresh_interval, stop_request, since_download, cache, data, signal>>

\* Lines 166-167: the recent-data table.
Table ==
    /\ pc = "table"
    /\ stop_request = "none"
    /\ ui' = ui \cup {"table"}
    /\ log' = Append(log, "st.dataframe")
    /\ pc' = "sleep"
    /\ UNCHANGED <<env, enable_email, refresh_interval, stop_request, since_download, cache, data, signal>>

\* The clock of since_download after dt more seconds.
elapse(t, dt) == IF t + dt < CACHE_TTL THEN t + dt ELSE CACHE_TTL

\* Lines 168-169 and the top of the next script run: sleep for the refresh
\* interval, rerun, redo the credential checks.  The cache entry ages by the
\* interval and is gone once its age reaches the time-to-live.
\* time.sleep(refresh_interval) looks at nothing while it sleeps: a stop
\* requested before or during the sleep is pending until the sleep has run
\* out, and st.rerun() then ends the run without starting another.
Sleep ==
    /\ pc = "sleep"
    /\ cache' = IF cache.present /\ cache.age + refresh_interval < CACHE_TTL
                THEN [cache EXCEPT !.age = @ + refresh_interval]
                ELSE NoEntry
    /\ since_download' = elapse(since_download, refresh_interval)
    /\ IF stop_request = "none"
       THEN /\ pc' = "fetch"
            /\ data' = EmptyFrame
            /\ signal' = "none"
            /\ ui' = startup_messages(env)
            /\ log' = <<>>
       ELSE /\ pc' = "stopped"
            /\ data' = EmptyFrame
            /\ log' = Append(log, "time.sleep")
            /\ UNCHANGED <<signal, ui>>
    /\ UNCHANGED <<env, enable_email, refresh_interval, stop_request>>

Next ==
    \/ FetchHit
    \/ FetchMiss
    \/ Compute
    \/ Render
    \/ Evaluate
    \/ Telegram
    \/ Email
    \/ Table
    \/ Sleep

Spec == Init /\ [][Next]_vars

(***************************************************************************)
(* Stop requests.  The script has no stop handling of its own; a stop      *)
(* (the runtime's Stop control, or the session closing) is a request the   *)
(* runtime keeps pending until the script thread next makes a call that    *)
(* renders an element, and the run ends there.  Requests made while a      *)
(* notification call is under way are not explored.                        *)
(***************************************************************************)
StopPoints == {"fetch", "compute", "render", "evaluate", "table", "sleep"}
ElementPoints == {"fetch", "render", "evaluate", "table"}

\* A stop is requested; nothing in the script notices.
RequestStop ==
    /\ stop_request = "none"
    /\ pc \in StopPoints
    /\ stop_request' = pc
    /\ UNCHANGED <<env, enable_email, refresh_interval, cache, pc, data, signal, ui,
                   log, since_download>>

\* Lines 139, 145, 155/160/165, 166: the next call that renders an element
\* ends the run; what was rendered so far stays on the page.
StopAtElement ==
    /\ stop_request # "none"
    /\ pc \in ElementPoints
    /\ pc' = "stopped"
    /\ data' = EmptyFrame
    /\ UNCHANGED <<env, enable_email, refresh_interval, cache, signal, ui, log,
                   stop_request, since_download>>

\* Lines 145-153: a stop requested after the k-th of the render's elements
\* ends the run at the element after it.
StopDuringRender ==
    /\ pc = "render"
    /\ stop_request = "none"
    /\ \E k \in 1..(Rendered(data) - 1) :
         ui' = ui \cup {RenderSteps[i].el : i \in 1..k}
    /\ stop_request' = "render"
    /\ pc' = "stopped"
    /\ data' = EmptyFrame
    /\ log' = Append(log, "render")
    /\ UNCHANGED <<env, enable_email, refresh_interval, cache, signal, since_download>>

StopNext ==
    \/ Next
    \/ RequestStop
    \/ StopAtElement
    \/ StopDuringRender

StopSpec == Init /\ [][StopNext]_vars

(***************************************************************************)
(* compute_signals on its own: any frame as input, including the frames    *)
(* get_stock_data never returns, followed by the caller's use of the       *)
(* result (lines 142-153).                                                 *)
(***************************************************************************)
InputCells == {Num(2), NaN}
InputFrames ==
    {EmptyFrame} \cup
    {[cols |-> cs,
      rows |-> [i \in 1..Len(c) |-> [col \in cs |-> IF col = "Close" THEN c[i] ELSE Num(i)]]] :
        cs \in {{"Datetime"}, {"Datetime", "Close"}},
        c \in UNION {[1..n -> InputCells] : n \in 1..MaxRows}}

ComputeInit ==
    /\ env \in {t \cup m : t \in TelegramEnvs, m \in EmailEnvs}
    /\ enable_email \in BOOLEAN
    /\ refresh_interval \in RefreshChoices
    /\ cache = NoEntry
    /\ pc = "compute"
    /\ data \in InputFrames
    /\ signal = "none"
    /\ ui = startup_messages(env)
    /\ log = <<>>
    /\ stop_request = "none"
    /\ since_download = CACHE_TTL

ComputeNext ==
    \/ Compute
    \/ Render

ComputeSpec == ComputeInit /\ [][ComputeNext]_vars

TypeOK ==
    /\ pc \in {"fetch", "compute", "render", "evaluate", "telegram", "email", "table",
               "sleep", "crashed", "blocked", "stopped"}
    /\ signal \in {"none", "BUY", "SELL", "NEUTRAL"}
    /\ Len(data.rows) <= MaxRows
    /\ refresh_interval \in RefreshRange
    /\ cache.present => cache.age < CACHE_TTL
    /\ stop_request \in {"none"} \cup StopPoints
    /\ since_download \in 0..CACHE_TTL

(***************************************************************************)
(* Vocabulary of the properties.                                           *)
(***************************************************************************)
Did(e) == \E i \in 1..Len(log) : log[i] = e

SendEvents ==
    {"send_telegram_message", "requests.post", "send_email_notification",
     "smtplib.SMTP_SSL"}
NoNotification == \A e \in SendEvents : ~Did(e)

FetchErrors ==
    {"error: Error fetching data", "error: No data found", "error: Invalid Close data"}
ComputeErrors ==
    {"error: Error computing indicators", "error: Close column missing or invalid",
     "error: No valid data after dropping NaNs"}

\* The fetch of this run has returned, and it returned the empty frame.
FetchFailed == Did("get_stock_data") /\ ~Did("compute_signals") /\ empty(data)
\* compute_signals has run in this run and reported an error.
ComputeFailed == Did("compute_signals") /\ ui \cap ComputeErrors # {}
\* compute_signals has run in this run and reported nothing.
ComputeSucceeded == Did("compute_signals") /\ ui \cap ComputeErrors = {}
\* The dispatch steps of this run are over.
DispatchOver == signal \in {"BUY", "SELL"} /\ pc \notin {"telegram", "email"}

\* The rule of the specification on a row whose inputs are all numbers.
RuleInputs == IndicatorCols \cup {"Close"}
AllDefined(r) == \A c \in RuleInputs : r[c].k = "num"
RuleSignal(r) ==
    IF r["MACD"].v > r["Signal"].v /\ r["RSI"].v < 30 /\ r["Close"].v < r["BB_Low"].v
    THEN "BUY"
    ELSE IF r["MACD"].v < r["Signal"].v /\ r["RSI"].v > 70
            /\ r["Close"].v > r["BB_High"].v
    THEN "SELL"
    ELSE "NEUTRAL"

\* C1: once a run has evaluated a frame that compute_signals produced without
\* error, and the latest row has macd, macd_signal, rsi, close, bb_low and
\* bb_high all defined, the branch taken is BUY exactly when macd > macd_signal,
\* rsi < 30 and close < bb_low, SELL exactly when macd < macd_signal, rsi > 70
\* and close > bb_high, and NEUTRAL otherwise.
C1_SignalFollowsRule ==
    (ComputeSucceeded /\ Did("evaluate") /\ AllDefined(iloc_last(data)))
        => signal = RuleSignal(iloc_last(data))

C1_Witness ==
    /\ ComputeSucceeded
    /\ Did("evaluate")
    /\ AllDefined(iloc_last(data))
    /\ signal = "SELL"

\* C2: a run that follows a failed fetch makes a new outbound call; stated on
\* the run that follows: a run whose fetch made no outbound call (it was served
\* from the cache) is not working with a failed fetch result.
C2_FailedFetchIsRefetched ==
    (Did("get_stock_data") /\ ~Did("yf.download")) => ~empty(cache.value)

\* C3: a run in which compute_signals reported an error evaluates no signal,
\* sends no notification and is not ended by the error.
C3_ComputeFailureSkipsToWait ==
    ComputeFailed => (~Did("evaluate") /\ NoNotification /\ pc # "crashed")

\* C4: a run whose fetch failed has the error rendered, is at the wait step,
\* and has run neither compute_signals, nor the render and evaluation steps,
\* nor any notification call.
C4_FetchFailureSkipsToWait ==
    FetchFailed =>
        /\ ui \cap FetchErrors # {}
        /\ pc = "sleep"
        /\ \A i \in 1..Len(log) : log[i] \in {"get_stock_data", "yf.download"}

C4_Witness ==
    /\ FetchFailed
    /\ pc = "sleep"
    /\ "error: Invalid Close data" \in ui

\* C5: in every run, the first as much as any later one, a BUY or SELL branch
\* calls the chat-bot sender exactly once (one post when its credentials are
\* set) and the email sender exactly once when the checkbox is set (one SMTP
\* session when its credentials are set); nothing in the state remembers the
\* signal of the run before.  A run that is NEUTRAL or has no signal makes no
\* notification call.
C5_OneDispatchPerSignalTick ==
    /\ (signal \in {"BUY", "SELL"} /\ pc # "telegram") =>
          /\ Count("send_telegram_message") = 1
          /\ Count("requests.post") = IF all_set(env, TelegramVars) THEN 1 ELSE 0
    /\ DispatchOver =>
          /\ Count("send_email_notification") = IF enable_email THEN 1 ELSE 0
          /\ Count("smtplib.SMTP_SSL") =
                IF enable_email /\ all_set(env, EmailVars) THEN 1 ELSE 0
    /\ signal \in {"none", "NEUTRAL"} => NoNotification

\* A later run served from the cache (the same frame as the run before) that
\* took the BUY branch and dispatched once.
C5_Witness ==
    /\ pc = "sleep"
    /\ signal = "BUY"
    /\ cache.age > 0
    /\ ~Did("yf.download")
    /\ Count("send_telegram_message") = 1
    /\ Count("requests.post") = 1

\* C6: when an indicator of the latest row (rsi, macd, macd_signal or a
\* Bollinger band) is undefined, the run sends no notification and takes
\* neither the BUY nor the SELL branch; after a compute without error its
\* evaluation takes the NEUTRAL branch.
C6_UndefinedIsNeutral ==
    (Did("compute_signals") /\ ~empty(data)
     /\ \E c \in IndicatorCols \cap data.cols : isna(iloc_last(data)[c]))
        => /\ NoNotification
           /\ signal \in {"none", "NEUTRAL"}
           /\ (ComputeSucceeded /\ Did("evaluate")) => signal = "NEUTRAL"

C6_Witness ==
    /\ ComputeSucceeded
    /\ pc = "sleep"
    /\ signal = "NEUTRAL"
    /\ isna(iloc_last(data)["Signal"])
    /\ iloc_last(data)["MACD"] = Num(1)
    /\ iloc_last(data)["RSI"] = Num(29)
    /\ iloc_last(data)["BB_Low"] = Num(3)

\* C7: in a BUY or SELL run with both channels' credentials set and the
\* checkbox set, once the dispatch steps are over the chat-bot post and the
\* SMTP session have each been attempted exactly once, whatever the outcome of
\* the other: a failed post does not keep the email from being attempted, and a
\* failed email leaves the post attempted.
C7_ChannelsIndependent ==
    (DispatchOver /\ enable_email /\ all_set(env, TelegramVars)
     /\ all_set(env, EmailVars))
        => /\ Count("requests.post") = 1
           /\ Count("smtplib.SMTP_SSL") = 1

C7_Witness ==
    /\ DispatchOver
    /\ "warning: Failed to send Telegram message" \in ui
    /\ "warning: Failed to send email" \in ui
    /\ Count("requests.post") = 1
    /\ Count("smtplib.SMTP_SSL") = 1

\* C8: no notification call can hold the run for ever: a run that has started
\* dispatching is never stuck inside a channel call.
C8_NoChannelBlocksTheLoop ==
    pc # "blocked"

\* C9: with one channel configured and the other lacking credentials, a BUY or
\* SELL run makes exactly one send attempt, and nothing is reported about the
\* channel that lacks credentials.
OnlyTelegramConfigured == all_set(env, TelegramVars) /\ ~all_set(env, EmailVars)
OnlyEmailConfigured ==
    ~all_set(env, TelegramVars) /\ all_set(env, EmailVars) /\ enable_email
C9_MissingChannelSilentlySkipped ==
    (DispatchOver /\ (OnlyTelegramConfigured \/ OnlyEmailConfigured))
        => /\ Count("requests.post") + Count("smtplib.SMTP_SSL") = 1
           /\ OnlyEmailConfigured => "error: Telegram credentials are missing" \notin ui
           /\ OnlyTelegramConfigured => "warning: Failed to send email" \notin ui

\* C10: what compute_signals hands back is either a frame with all of RSI,
\* MACD, Signal, BB_High, BB_Low, Buy_Signal and Sell_Signal, or a frame the
\* caller's guard rejects; no other frame reaches the render and evaluation
\* steps.
C10_NoPartialFrame ==
    Did("compute_signals") =>
        (ComputedCols \subseteq data.cols \/ AfterCompute(data) = "sleep")

\* C11: the time-to-live of the fetch cache is no longer than the shortest
\* refresh interval the slider offers: no stored result is kept, and so none
\* is served, once it is as old as that interval.
C11_TtlWithinShortestInterval ==
    cache.present => cache.age < MIN_REFRESH

\* One-row frames with every combination of the two flags, among them the
\* combination the rule never produces.
FlaggedFrames ==
    {[cols |-> SignalCols,
      rows |-> <<[c \in SignalCols |-> IF c = "Buy_Signal" THEN b ELSE s]>>] :
        b \in BOOLEAN, s \in BOOLEAN}

BothFlags(r) == r["Buy_Signal"] /\ r["Sell_Signal"]

\* C12: BUY and SELL are mutually exclusive: no row of a computed frame has
\* both flags, a script run shows at most one of the two banners and calls
\* each sender at most once, and a latest row with both flags would take the
\* BUY branch, which is tested first.
C12_BuySellExclusive ==
    /\ (Did("compute_signals") /\ SignalCols \subseteq data.cols) =>
          \A i \in 1..Len(data.rows) : ~BothFlags(data.rows[i])
    /\ ~({"success: Buy Signal Detected!", "error: Sell Signal Detected!"} \subseteq ui)
    /\ signal = "BUY" => "error: Sell Signal Detected!" \notin ui
    /\ signal = "SELL" => "success: Buy Signal Detected!" \notin ui
    /\ Count("send_telegram_message") <= 1
    /\ Count("send_email_notification") <= 1
    /\ \A f \in FlaggedFrames : BothFlags(iloc_last(f)) => branch(f) = "BUY"

\* A frame whose earlier row is a BUY row and whose latest row is a SELL row:
\* the run showed the Sell banner and dispatched once.
C12_Witness ==
    /\ pc = "sleep"
    /\ signal = "SELL"
    /\ Len(data.rows) = 2
    /\ data.rows[1]["Buy_Signal"]
    /\ data.rows[2]["Sell_Signal"]
    /\ Count("send_telegram_message") = 1
    /\ "error: Sell Signal Detected!" \in ui

WholeRender ==
    {RenderSteps[i].el : i \in 1..Len(RenderSteps)} \cup {"table"}
Banners ==
    {"success: Buy Signal Detected!", "error: Sell Signal Detected!",
     "info: No strong signal currently."}

\* C13: notification failures are non-fatal and never block rendering: a
\* script run whose frame was computed without error is never ended or held
\* up by a notification attempt, and when it reaches the wait it has rendered
\* the metrics, the chart, a signal banner and the table.
C13_NotificationsNeverBlockRender ==
    ComputeSucceeded =>
        /\ pc \notin {"crashed", "blocked"}
        /\ pc = "sleep" => (WholeRender \subseteq ui /\ Banners \cap ui # {})

\* C14: the loop answers a stop while it waits and stops only between ticks:
\* a stop requested during the wait ends the run before the refresh interval
\* has run out, no stop ends a run between the start of compute_signals and
\* the end of that run's render, and so a stopped run has rendered either
\* nothing of its frame or all of it.
C14_StopOnlyBetweenTicks ==
    pc = "stopped" =>
        /\ stop_request = "sleep" => ~Did("time.sleep")
        /\ ~(Did("compute_signals") /\ ~Did("st.dataframe") /\ ~Did("time.sleep"))
        /\ WholeRender \cap ui = {} \/ WholeRender \subseteq ui

NoValidClose(df) ==
    "Close" \notin df.cols \/ \A i \in 1..Len(df.rows) : isna(df.rows[i]["Close"])

C16_EveryTickEndsWithWait ==
    /\ refresh_interval \in RefreshRange
    /\ pc \notin {"crashed", "blocked"}
    /\ (pc = "fetch" /\ since_download < CACHE_TTL) =>
          /\ since_download >= refresh_interval
          /\ since_download % refresh_interval = 0

DidNext(e) == \E i \in 1..Len(log') : log'[i] = e

\* The step runs the body of get_stock_data, or serves the call from the cache.
DownloadStep == DidNext("yf.download") /\ ~Did("yf.download")
CacheHitStep ==
    DidNext("get_stock_data") /\ ~Did("get_stock_data") /\ ~DidNext("yf.download")

\* C17: in any window of 300 seconds get_stock_data makes at most one
\* download for the symbol, whether that download returned data or failed:
\* a download happens only when the last one is at least 300 seconds old,
\* and every other call returns what that last download stored.
C17_OneDownloadPerWindow ==
    [][ /\ DownloadStep => since_download >= CACHE_TTL
        /\ CacheHitStep =>
              /\ since_download < CACHE_TTL
              /\ cache.present /\ cache.age = since_download
              /\ data' = cache.value
              /\ cache' = cache ]_vars

\* A run 240 seconds after a failed download, served with the stored failure.
C17_Witness ==
    /\ pc = "sleep"
    /\ Did("get_stock_data")
    /\ ~Did("yf.download")
    /\ since_download = 240
    /\ empty(data)
    /\ ui \cap FetchErrors # {}

Pos(e) == CHOOSE i \in 1..Len(log) : log[i] = e
Before(a, b) == (Did(a) /\ Did(b)) => Pos(a) < Pos(b)

\* C18: an email is attempted in a run only if the run took the BUY or SELL
\* branch, the checkbox is ticked and the three email credentials are set;
\* the chat-bot call has returned before the email call starts; and both
\* come after the metrics and the chart were rendered.
C18_EmailGuardsAndOrder ==
    /\ Did("send_email_notification") => (signal \in {"BUY", "SELL"} /\ enable_email)
    /\ Did("smtplib.SMTP_SSL") =>
          (signal \in {"BUY", "SELL"} /\ enable_email /\ all_set(env, EmailVars))
    /\ Did("send_email_notification") => Did("send_telegram_message")
    /\ Before("send_telegram_message", "send_email_notification")
    /\ Before("requests.post", "send_email_notification")
    /\ \A e \in SendEvents :
          Did(e) => /\ Did("render") /\ Pos("render") < Pos(e)
                    /\ {RenderSteps[i].el : i \in 1..Len(RenderSteps)} \subseteq ui

\* A SELL run that posted to the chat bot and then sent the email.
C18_Witness ==
    /\ signal = "SELL"
    /\ enable_email
    /\ Did("requests.post")
    /\ Did("smtplib.SMTP_SSL")
    /\ "success: Email notification sent!" \in ui
    /\ Pos("requests.post") < Pos("smtplib.SMTP_SSL")

====
